---- MODULE Spec2Model ----
(***************************************************************************)
(* Model of the PTZ camera controller: CameraController (the serial        *)
(* command channel and the actuator protocol, camera_controller.py) and    *)
(* AIFollower.run (the per-frame control loop, ai_camera_control.py).      *)
(*                                                                         *)
(* Text is a sequence of characters, bytes on the wire are a sequence of   *)
(* byte tokens; str.strip, str.encode, bytes.decode and the formatting of  *)
(* integers are computed, not assumed.                                     *)
(***************************************************************************)
EXTENDS Integers, Sequences, FiniteSets, TLC

\* ------------------------------------------------------------------ bounds
\* longest raw command text handed to send_command by a caller
MaxLen == 3
\* top-level calls and control cycles start only while fewer bytes than this
\* have been written to the device
MaxBytes == 3
\* longest detection list the detector returns for one frame
MaxDet == 2
\* box coordinates are multiples of 1/SubPixel pixel
SubPixel == 2
MaxSends == 2       \* send_command calls followed with the firmware in view

VARIABLES
    cam,          \* the CameraController and the device behind its serial handle
    pc,           \* where the single thread of the program is
    text,         \* the raw text of the last direct send_command call
    cap,          \* the cv2.VideoCapture of the running loop
    frame_width, frame_height, center_x, center_y,   \* AIFollower.run locals
    boxes,        \* results.boxes of the frame read last
    key,          \* the last cv2.waitKey result
    ret,          \* the flag of the last cap.read(): "unset", "True" or "False"
    af,           \* autofocus_loop locals
    firmware      \* the firmware behind the port: its replies and their timing

vars == <<cam, pc, text, cap, frame_width, frame_height, center_x, center_y,
          boxes, key, ret, af, firmware>>

\* ------------------------------------------------------------ text and bytes
CR == "\r"
LF == "\n"
CRLF == <<CR, LF>>

\* one character outside ASCII (two bytes in UTF-8), written "U+00E9"
EAcute == "U+00E9"

\* str.isspace() for the characters of the model
Whitespace == {" ", "\t", LF, CR, "\f"}

RECURSIVE lstrip(_)
lstrip(s) == IF s # <<>> /\ Head(s) \in Whitespace THEN lstrip(Tail(s)) ELSE s

RECURSIVE rstrip(_)
rstrip(s) ==
    IF s # <<>> /\ s[Len(s)] \in Whitespace
    THEN rstrip(SubSeq(s, 1, Len(s) - 1))
    ELSE s

\* str.strip()
strip(s) == rstrip(lstrip(s))

\* str.encode("utf-8"): one byte per ASCII character, two for U+00E9
RECURSIVE encode(_)
encode(s) ==
    IF s = <<>> THEN <<>>
    ELSE (IF Head(s) = EAcute THEN <<"0xC3", "0xA9">> ELSE <<Head(s)>>)
         \o encode(Tail(s))

\* bytes.decode("utf-8", errors="ignore"): a well-formed sequence becomes its
\* character, a byte that starts or continues no well-formed sequence is dropped
RECURSIVE decode(_)
decode(b) ==
    IF b = <<>> THEN <<>>
    ELSE IF Head(b) = "0xC3"
         THEN IF Len(b) >= 2 /\ b[2] = "0xA9"
              THEN <<EAcute>> \o decode(SubSeq(b, 3, Len(b)))
              ELSE decode(Tail(b))
         ELSE IF Head(b) \in {"0xA9", "0xFF"}
              THEN decode(Tail(b))
              ELSE <<Head(b)>> \o decode(Tail(b))

DigitChars == <<"0", "1", "2", "3", "4", "5", "6", "7", "8", "9">>

RECURSIVE Digits(_)
Digits(n) ==
    IF n < 10 THEN <<DigitChars[n + 1]>>
    ELSE Digits(n \div 10) \o <<DigitChars[(n % 10) + 1]>>

\* the text of an int in an f-string, f"{value}"
str(v) == IF v < 0 THEN <<"-">> \o Digits(-v) ELSE Digits(v)

\* ------------------------------------------------------------ the channel
\* the value of a send_command call: nothing returned yet, None, or a str
Unset == [kind |-> "unset", text |-> <<>>]
None == [kind |-> "None", text |-> <<>>]
Str(s) == [kind |-> "str", text |-> s]

\* a plausible bug: the guard looks at is_open only when there is a handle,
\* and lets an absent handle through
closed_HandleOnly(st) == st.serial = "Serial" /\ ~st.is_open

\* `not self.serial or not self.serial.is_open`
closed(st) == st.serial = "None" \/ ~st.is_open

\* a plausible bug: the terminator is appended to the untrimmed text
full_cmd_NoStrip(cmd) == encode(cmd \o CRLF)

\* (cmd.strip() + "\r\n").encode("utf-8")
full_cmd(cmd) == encode(strip(cmd) \o CRLF)

\* send_command(cmd); avail is what serial.read_all() finds after the settle
\* wait. A call made after an exception has escaped is never made.
send_command(st, cmd, avail) ==
    IF st.raised THEN st
    ELSE LET s1 == [st EXCEPT !.sent = Append(@, cmd)]
         IN IF closed(s1) THEN [s1 EXCEPT !.ret = None]
            ELSE IF s1.serial = "None"
                 \* None has no attribute write: AttributeError
                 THEN [s1 EXCEPT !.raised = TRUE]
                 ELSE [s1 EXCEPT
                          !.wire = Append(@, full_cmd(cmd)),
                          !.bytes_out = @ + Len(full_cmd(cmd)),
                          !.ret = Str(strip(decode(avail)))]

\* the entry of a controller method: the call is recorded in the call trace
Call(st, op, v) ==
    IF st.raised THEN st ELSE [st EXCEPT !.issued = Append(@, [op |-> op, v |-> v])]

\* ------------------------------------------------------- the actuator protocol
ir_on(st, rx) ==
    send_command(Call(st, "ir_on", 0), <<"M", "2", "4", "2", " ", "A", "1">>, rx[1])

\* a plausible bug: ir_off switches the IR light on
ir_off_On(st, rx) ==
    send_command(Call(st, "ir_off", 0), <<"M", "2", "4", "2", " ", "A", "1">>, rx[1])

ir_off(st, rx) ==
    send_command(Call(st, "ir_off", 0), <<"M", "2", "4", "2", " ", "A", "0">>, rx[1])

wake_up(st, rx) ==
    LET s1 == send_command(Call(st, "wake_up", 0), <<"M", "2", "3", "8">>, rx[1])
        s2 == send_command(s1, <<"M", "8">>, rx[2])
        s3 == send_command(s2, <<"v", "e", "r", "s", "i", "o", "n">>, rx[3])
    IN ir_off(s3, SubSeq(rx, 4, 4))

autofocus(st, rx) ==
    LET s1 == send_command(Call(st, "autofocus", 0), <<"G", "9", "1">>, rx[1])
        s2 == send_command(s1, <<"M", "2", "4", "6">>, rx[2])
        s3 == send_command(s2, <<"M", "2", "4", "0", " ", "A", "5", "0">>, rx[3])
        s4 == send_command(s3, <<"G", "0", " ", "A", "3", "0", "0", "0", "0">>, rx[4])
    IN send_command(s4, <<"M", "0", " ", "A">>, rx[5])

\* a plausible bug: the move is committed before the target is set
set_zoom_CommitFirst(st, value, rx) ==
    LET s1 == send_command(Call(st, "set_zoom", value), <<"M", "0", " ", "A">>, rx[1])
    IN send_command(s1, <<"G", "0", " ", "A">> \o str(value), rx[2])

set_zoom(st, value, rx) ==
    LET s1 == send_command(Call(st, "set_zoom", value),
                           <<"G", "0", " ", "A">> \o str(value), rx[1])
    IN send_command(s1, <<"M", "0", " ", "A">>, rx[2])

set_focus(st, value, rx) ==
    LET s1 == send_command(Call(st, "set_focus", value),
                           <<"G", "0", " ", "B">> \o str(value), rx[1])
    IN send_command(s1, <<"M", "0", " ", "B">>, rx[2])

set_mode_day(st, rx) ==
    LET s1 == send_command(Call(st, "set_mode_day", 0),
                           <<"M", "2", "4", "1", " ", "A", "0">>, rx[1])
        s2 == send_command(s1, <<"M", "2", "4", "0", " ", "A", "5", "0">>, rx[2])
        s3 == send_command(s2, <<"M", "2", "5", "0", " ", "A", "1", "0">>, rx[3])
    IN ir_off(s3, SubSeq(rx, 4, 4))

set_mode_night(st, rx) ==
    LET s1 == send_command(Call(st, "set_mode_night", 0),
                           <<"M", "2", "4", "1", " ", "A", "0">>, rx[1])
        s2 == send_command(s1, <<"M", "2", "4", "0", " ", "A", "5">>, rx[2])
        s3 == send_command(s2, <<"M", "2", "5", "0", " ", "A", "4", "0">>, rx[3])
    IN ir_on(s3, SubSeq(rx, 4, 4))

pan(st, value, rx) ==
    LET s1 == send_command(Call(st, "pan", value),
                           <<"G", "0", " ", "X">> \o str(value), rx[1])
    IN send_command(s1, <<"M", "0", " ", "X">>, rx[2])

tilt(st, value, rx) ==
    LET s1 == send_command(Call(st, "tilt", value),
                           <<"G", "0", " ", "Y">> \o str(value), rx[1])
    IN send_command(s1, <<"M", "0", " ", "Y">>, rx[2])

\* ------------------------------------------------------------ the control law
\* int(x) of the quotient a / b, b > 0: truncation toward zero
TruncDiv(a, b) == IF a >= 0 THEN a \div b ELSE -((-a) \div b)

Abs(n) == IF n < 0 THEN -n ELSE n

\* a detection: class id, box corners in units of 1/SubPixel pixel, and the
\* confidence in percent
Det(cls, x1, y1, x2, y2, conf) ==
    [cls |-> cls, x1 |-> x1, y1 |-> y1, x2 |-> x2, y2 |-> y2, conf |-> conf]

\* frame_width // 2
half(n) == n \div 2

\* a plausible bug: the first detection is taken whatever its class
find_person_Any(bs) == IF bs = <<>> THEN 0 ELSE 1

\* a plausible bug: the person detection of greatest confidence is selected
find_person_BestConf(bs) ==
    IF \E i \in 1..Len(bs) : bs[i].cls = 0
    THEN CHOOSE i \in 1..Len(bs) :
             /\ bs[i].cls = 0
             /\ \A j \in 1..Len(bs) :
                  bs[j].cls = 0 =>
                      \/ bs[j].conf < bs[i].conf
                      \/ bs[j].conf = bs[i].conf /\ i <= j
    ELSE 0

\* the index of the first detection of class 0 in bs, 0 when there is none
\* (`person` stays None)
find_person(bs) ==
    IF \E i \in 1..Len(bs) : bs[i].cls = 0
    THEN CHOOSE i \in 1..Len(bs) :
             /\ bs[i].cls = 0
             /\ \A j \in 1..(i - 1) : bs[j].cls # 0
    ELSE 0

\* a plausible bug: the left (top) edge of the box is taken for its center
obj_center_Edge(lo, hi) == TruncDiv(lo, SubPixel)

\* int((x1 + x2) / 2)
obj_center(lo, hi) == TruncDiv(lo + hi, 2 * SubPixel)

\* a plausible bug: the product is rounded to the nearest integer
gain_Round(d) == TruncDiv(2 * Abs(d) + 10, 20) * (IF d < 0 THEN -1 ELSE 1)

\* int(d * 0.1): the double d * 0.1 truncates to the integer quotient d / 10
\* for every |d| up to 5000
gain(d) == TruncDiv(d, 10)

\* a plausible bug: the deadband lets every value through
outside_deadband_None(val) == Abs(val) >= 0

\* abs(val) > 1
outside_deadband(val) == Abs(val) > 1

\* a plausible bug: the box width is added to the frame width
zoom_value_Plus(fw, x1, x2) ==
    TruncDiv(10000 * SubPixel + (fw * SubPixel + (x2 - x1)) * 5, SubPixel)

\* int(10000 + (frame_width - bbox_width) * 5), bbox_width = x2 - x1
zoom_value(fw, x1, x2) ==
    TruncDiv(10000 * SubPixel + (fw * SubPixel - (x2 - x1)) * 5, SubPixel)

\* the body of the loop of AIFollower.run from the detection list to set_zoom
\* a plausible bug: the zoom is commanded before the pan and the tilt
actuate_ZoomFirst(st, bs, fw, cx, cy, rx) ==
    LET i == find_person(bs)
    IN IF i = 0 THEN st
       ELSE LET person == bs[i]
                dx == obj_center(person.x1, person.x2) - cx
                dy == obj_center(person.y1, person.y2) - cy
                pan_val == gain(dx)
                tilt_val == gain(dy)
                s0 == set_zoom(st, zoom_value(fw, person.x1, person.x2), SubSeq(rx, 5, 6))
                s1 == IF outside_deadband(pan_val)
                      THEN pan(s0, pan_val, SubSeq(rx, 1, 2)) ELSE s0
            IN IF outside_deadband(tilt_val)
               THEN tilt(s1, tilt_val, SubSeq(rx, 3, 4)) ELSE s1

\* the body of one cycle after the detector: target selection, control law,
\* and the commands pan, tilt, set_zoom in program order
actuate(st, bs, fw, cx, cy, rx) ==
    LET i == find_person(bs)
    IN IF i = 0 THEN st
       ELSE LET person == bs[i]
                dx == obj_center(person.x1, person.x2) - cx
                dy == obj_center(person.y1, person.y2) - cy
                pan_val == gain(dx)
                tilt_val == gain(dy)
                s1 == IF outside_deadband(pan_val)
                      THEN pan(st, pan_val, SubSeq(rx, 1, 2)) ELSE st
                s2 == IF outside_deadband(tilt_val)
                      THEN tilt(s1, tilt_val, SubSeq(rx, 3, 4)) ELSE s1
            IN set_zoom(s2, zoom_value(fw, person.x1, person.x2), SubSeq(rx, 5, 6))

\* ------------------------------------------------------------------ inputs
\* what serial.read_all() can find: nothing, or a reply with line noise
Avail == { <<>>, <<" ", "0xFF", "o", "0xC3", "0xA9", "k", CR, LF, "0xC3">> }

Rx(n) == [1..n -> Avail]

Alphabet == {"M", " ", CR, LF, EAcute}

RECURSIVE TextsOfLen(_)
TextsOfLen(n) ==
    IF n = 0 THEN {<<>>}
    ELSE {Append(t, c) : t \in TextsOfLen(n - 1), c \in Alphabet}

Texts == UNION {TextsOfLen(n) : n \in 0..MaxLen}

\* the values handed to set_zoom, set_focus, pan and tilt by a direct caller
Values == {-25, -2, 0, 7, 15900}

\* frame geometries <<width, height>>
Frames == {<<1280, 720>>, <<641, 481>>, <<640, 481>>}

Px(n) == n * SubPixel

\* the detections the detector can return for a frame of the given width
Dets(fw) ==
    IF fw = 1280
    THEN { Det(0, Px(590), Px(330), Px(690), Px(430), 90),
           Det(0, Px(600), Px(310), Px(710), Px(410), 35),
           Det(0, Px(740) + 1, Px(100) + 1, Px(840), Px(300), 90),
           Det(0, Px(400), Px(330), Px(520), Px(430), 35),
           Det(0, Px(601), Px(310), Px(641), Px(410), 90),
           Det(0, Px(590), Px(310), Px(650), Px(380), 90),
           Det(0, Px(0), Px(0), Px(1280), Px(720), 90),
           Det(0, Px(640) - 1, Px(360) - 1, Px(640) + 1, Px(360) + 1, 35),
           Det(2, Px(740) + 1, Px(100) + 1, Px(840), Px(300), 95),
           Det(16, Px(0), Px(0), Px(1280), Px(720), 30) }
    ELSE IF fw = 641
    THEN { Det(0, Px(300), Px(200), Px(341), Px(281), 90),
           Det(0, Px(0), Px(0), Px(641), Px(481), 35),
           Det(0, Px(100), Px(200), Px(200) + 1, Px(281), 90),
           Det(0, Px(340), Px(260), Px(360), Px(300), 90),
           Det(0, Px(331), Px(251), Px(341) + 1, Px(261), 35),
           Det(2, Px(340), Px(260), Px(360), Px(300), 95),
           Det(16, Px(0), Px(0), Px(641), Px(481), 30) }
    ELSE { Det(0, Px(300), Px(200), Px(340), Px(281), 90),
           Det(0, Px(0), Px(0), Px(640), Px(481), 35),
           Det(0, Px(345), Px(215), Px(347), Px(217), 90),
           Det(2, Px(0), Px(0), Px(640), Px(481), 95) }

RECURSIVE DetLists(_, _)
DetLists(fw, n) ==
    IF n = 0 THEN {<<>>}
    ELSE {Append(l, d) : l \in DetLists(fw, n - 1), d \in Dets(fw)}

Results(fw) == UNION {DetLists(fw, n) : n \in 0..MaxDet}

\* autofocus_loop arguments <<min_focus, max_focus, step>>
Sweeps == {<<0, 4, 2>>, <<0, 5, 2>>, <<3, 3, 1>>, <<4, 2, 1>>, <<5, 0, -2>>}

\* values of the Laplacian variance of a captured frame
Sharpness == {0, 3, 7}

\* ------------------------------------------------------------------ states
\* a plausible bug: the exception of serial.Serial(...) reaches the caller
init_NoExcept(ok) ==
    [serial |-> IF ok THEN "Serial" ELSE "None", is_open |-> ok,
     failed |-> ~ok, wire |-> <<>>, sent |-> <<>>, issued |-> <<>>,
     ret |-> Unset, bytes_out |-> 0, raised |-> ~ok]

\* CameraController.__init__: serial.Serial(...) opens the port or raises, and
\* the except clause keeps the exception from the caller and logs it (failed)
init(ok) ==
    [serial |-> IF ok THEN "Serial" ELSE "None", is_open |-> ok,
     failed |-> ~ok, wire |-> <<>>, sent |-> <<>>, issued |-> <<>>,
     ret |-> Unset, bytes_out |-> 0, raised |-> FALSE]

AfNone == [min_focus |-> 0, max_focus |-> 0, step |-> 1, focus |-> 0,
           best_focus |-> 0, best_value |-> -1, committed |-> FALSE,
           samples |-> <<>>]

\* the firmware has answered nothing yet: no byte is in the input buffer or on
\* its way, and every response so far (none) arrived within its settle interval
FwNone == [rxbuf |-> <<>>, flight |-> <<>>, reply |-> <<>>, read |-> <<>>,
           timely |-> TRUE, io |-> <<>>, sends |-> 0]

Init ==
    /\ \E ok \in BOOLEAN : cam = init(ok)
    /\ pc = "idle"
    /\ text = <<>>
    /\ cap = "none"
    /\ frame_width = 0 /\ frame_height = 0 /\ center_x = 0 /\ center_y = 0
    /\ boxes = <<>>
    /\ key = -1
    /\ ret = "unset"
    /\ af = AfNone
    /\ firmware = FwNone

\* the logs of the operation that starts now: what it writes, the texts it
\* hands to send_command, the controller methods it calls, the last value returned
Mark(st) == [st EXCEPT !.wire = <<>>, !.sent = <<>>, !.issued = <<>>, !.ret = Unset]

Budget == cam.bytes_out < MaxBytes

\* where the thread is once an operation that started at `next` has ended
After(st, next) == IF st.raised THEN "crashed" ELSE next

LoopVars == <<cap, frame_width, frame_height, center_x, center_y, boxes, key, ret, af>>

\* the locals of the loop that ran last are gone once another call starts
NoRunLocals ==
    /\ frame_width' = 0 /\ frame_height' = 0 /\ center_x' = 0 /\ center_y' = 0
    /\ boxes' = <<>>
    /\ key' = -1
    /\ ret' = "unset"

NoLoopLocals ==
    /\ NoRunLocals
    /\ cap' = "none"
    /\ af' = AfNone

\* ------------------------------------------------- direct calls of the methods
SendCommand ==
    /\ pc = "idle" /\ Budget
    /\ \E cmd \in Texts, rx \in Rx(1) :
         /\ cam' = send_command(Mark(cam), cmd, rx[1])
         /\ text' = cmd
    /\ pc' = After(cam', "idle")
    /\ NoLoopLocals
    /\ UNCHANGED firmware

WakeUp ==
    /\ pc = "idle" /\ Budget
    /\ \E rx \in Rx(4) : cam' = wake_up(Mark(cam), rx)
    /\ pc' = After(cam', "idle")
    /\ text' = <<>>
    /\ NoLoopLocals
    /\ UNCHANGED firmware

Autofocus ==
    /\ pc = "idle" /\ Budget
    /\ \E rx \in Rx(5) : cam' = autofocus(Mark(cam), rx)
    /\ pc' = After(cam', "idle")
    /\ text' = <<>>
    /\ NoLoopLocals
    /\ UNCHANGED firmware

IrOn ==
    /\ pc = "idle" /\ Budget
    /\ \E rx \in Rx(1) : cam' = ir_on(Mark(cam), rx)
    /\ pc' = After(cam', "idle")
    /\ text' = <<>>
    /\ NoLoopLocals
    /\ UNCHANGED firmware

IrOff ==
    /\ pc = "idle" /\ Budget
    /\ \E rx \in Rx(1) : cam' = ir_off(Mark(cam), rx)
    /\ pc' = After(cam', "idle")
    /\ text' = <<>>
    /\ NoLoopLocals
    /\ UNCHANGED firmware

SetModeDay ==
    /\ pc = "idle" /\ Budget
    /\ \E rx \in Rx(4) : cam' = set_mode_day(Mark(cam), rx)
    /\ pc' = After(cam', "idle")
    /\ text' = <<>>
    /\ NoLoopLocals
    /\ UNCHANGED firmware

SetModeNight ==
    /\ pc = "idle" /\ Budget
    /\ \E rx \in Rx(4) : cam' = set_mode_night(Mark(cam), rx)
    /\ pc' = After(cam', "idle")
    /\ text' = <<>>
    /\ NoLoopLocals
    /\ UNCHANGED firmware

SetZoom ==
    /\ pc = "idle" /\ Budget
    /\ \E value \in Values, rx \in Rx(2) : cam' = set_zoom(Mark(cam), value, rx)
    /\ pc' = After(cam', "idle")
    /\ text' = <<>>
    /\ NoLoopLocals
    /\ UNCHANGED firmware

SetFocus ==
    /\ pc = "idle" /\ Budget
    /\ \E value \in Values, rx \in Rx(2) : cam' = set_focus(Mark(cam), value, rx)
    /\ pc' = After(cam', "idle")
    /\ text' = <<>>
    /\ NoLoopLocals
    /\ UNCHANGED firmware

Pan ==
    /\ pc = "idle" /\ Budget
    /\ \E value \in Values, rx \in Rx(2) : cam' = pan(Mark(cam), value, rx)
    /\ pc' = After(cam', "idle")
    /\ text' = <<>>
    /\ NoLoopLocals
    /\ UNCHANGED firmware

Tilt ==
    /\ pc = "idle" /\ Budget
    /\ \E value \in Values, rx \in Rx(2) : cam' = tilt(Mark(cam), value, rx)
    /\ pc' = After(cam', "idle")
    /\ text' = <<>>
    /\ NoLoopLocals
    /\ UNCHANGED firmware

\* ------------------------------------------------------------ AIFollower.run
\* cv2.VideoCapture(video_source), the isOpened test and the frame geometry
RunStart ==
    /\ pc = "idle"
    /\ \E opened \in BOOLEAN :
         IF opened
         THEN /\ \E f \in Frames :
                   /\ frame_width' = f[1] /\ frame_height' = f[2]
                   /\ center_x' = half(f[1]) /\ center_y' = half(f[2])
              /\ cap' = "open"
              /\ pc' = "run_read"
         ELSE /\ cap' = "failed"
              /\ pc' = "idle"
              /\ frame_width' = 0 /\ frame_height' = 0
              /\ center_x' = 0 /\ center_y' = 0
    /\ boxes' = <<>>
    /\ key' = -1
    /\ ret' = "unset"
    /\ cam' = Mark(cam)
    /\ text' = <<>>
    /\ af' = AfNone
    /\ UNCHANGED firmware

\* a plausible bug: a failed read is skipped like a missed sample (continue)
RunReadFail_Continue ==
    /\ pc = "run_read"
    /\ ret' = "False"
    /\ pc' = "run_read"
    /\ UNCHANGED <<cam, boxes, cap>>
    /\ UNCHANGED <<text, frame_width, frame_height, center_x, center_y, key, af, firmware>>

\* cap.read() delivers no frame: break, then cap.release()
RunReadFail ==
    /\ pc = "run_read"
    /\ ret' = "False"
    /\ cap' = "released"
    /\ pc' = "idle"
    /\ UNCHANGED <<cam, boxes>>
    /\ UNCHANGED <<text, frame_width, frame_height, center_x, center_y, key, af, firmware>>

\* cap.read() delivers a frame: it is handed to the detector, whose detection
\* list is results.boxes
RunReadFrame ==
    /\ pc = "run_read"
    /\ Budget
    /\ ret' = "True"
    /\ \E bs \in Results(frame_width) : boxes' = bs
    /\ cam' = Mark(cam)
    /\ pc' = "run_cycle"
    /\ UNCHANGED cap
    /\ UNCHANGED <<text, frame_width, frame_height, center_x, center_y, key, af, firmware>>

\* ret, frame = cap.read()
RunRead == RunReadFail \/ RunReadFrame

\* target selection, the control law and the commands of one cycle
RunCycle ==
    /\ pc = "run_cycle"
    /\ \E rx \in Rx(6) :
         cam' = actuate(cam, boxes, frame_width, center_x, center_y, rx)
    /\ pc' = After(cam', "run_wait")
    /\ UNCHANGED <<text, LoopVars, firmware>>

\* cv2.waitKey(1) == 27 ends the loop; otherwise the pacing delay and the next cycle
RunWaitKey ==
    /\ pc = "run_wait"
    /\ \E k \in {-1, 27} :
         /\ key' = k
         /\ IF k = 27
            THEN cap' = "released" /\ pc' = "idle"
            ELSE cap' = cap /\ pc' = "run_read"
    /\ UNCHANGED <<cam, text, frame_width, frame_height, center_x, center_y, boxes,
                   ret, af, firmware>>

\* ------------------------------------------- CameraController.autofocus_loop
\* a plausible bug: the range ends before max_focus, range(min_focus, max_focus, step)
in_range_Exclusive(a) ==
    IF a.step > 0 THEN a.focus < a.max_focus ELSE a.focus > a.max_focus

\* whether range(min_focus, max_focus + 1, step) still yields a.focus
in_range(a) ==
    IF a.step > 0 THEN a.focus < a.max_focus + 1 ELSE a.focus > a.max_focus + 1

\* a plausible bug: the first candidate is taken to be 0, not min_focus
af_locals_ZeroBest(s) ==
    [min_focus |-> s[1], max_focus |-> s[2], step |-> s[3], focus |-> s[1],
     best_focus |-> 0, best_value |-> -1, committed |-> FALSE, samples |-> <<>>]

\* best_focus = min_focus, best_value = -1.0, and the first value of the range
af_locals(s) ==
    [min_focus |-> s[1], max_focus |-> s[2], step |-> s[3], focus |-> s[1],
     best_focus |-> s[1], best_value |-> -1, committed |-> FALSE, samples |-> <<>>]

\* a plausible bug: a sample as sharp as the best one replaces it
better_OrEqual(value, best_value) == value >= best_value

\* value > best_value
better(value, best_value) == value > best_value

\* the sample of this pass joins the samples so far; a failed capture has no value
Sampled(a, ok, value) ==
    [a EXCEPT !.samples = Append(@, [focus |-> a.focus, ret |-> ok,
                                     value |-> IF ok THEN value ELSE -1]),
              !.focus = @ + a.step]

\* a plausible bug: the last captured sample is kept, whatever its value
sample_KeepLast(a, ok, value) ==
    IF ok
    THEN [Sampled(a, ok, value) EXCEPT !.best_value = value, !.best_focus = a.focus]
    ELSE Sampled(a, ok, value)

\* a plausible bug: a failed capture is scored all the same (no continue)
sample_IgnoreRet(a, ok, value) ==
    IF better(value, a.best_value)
    THEN [Sampled(a, ok, value) EXCEPT !.best_value = value, !.best_focus = a.focus]
    ELSE Sampled(a, ok, value)

\* ret, frame = cap.read(); a failed capture is skipped; a captured frame is
\* scored and replaces the best one when it is sharper
sample(a, ok, value) ==
    IF ok /\ better(value, a.best_value)
    THEN [Sampled(a, ok, value) EXCEPT !.best_value = value, !.best_focus = a.focus]
    ELSE Sampled(a, ok, value)

\* a plausible bug: a capture that cannot be opened is logged, and the sweep
\* runs all the same (no return)
AfStart_NoReturn ==
    /\ pc = "idle" /\ Budget
    /\ \E opened \in BOOLEAN, s \in Sweeps :
         /\ af' = af_locals(s)
         /\ cap' = IF opened THEN "open" ELSE "failed"
         /\ pc' = "af_sweep"
    /\ cam' = Mark(cam)
    /\ text' = <<>>
    /\ NoRunLocals
    /\ UNCHANGED firmware

\* cv2.VideoCapture(video_device) and the isOpened test, then the initial best
AfStart ==
    /\ pc = "idle" /\ Budget
    /\ \E opened \in BOOLEAN :
         IF opened
         THEN /\ \E s \in Sweeps : af' = af_locals(s)
              /\ cap' = "open"
              /\ pc' = "af_sweep"
         ELSE /\ af' = AfNone
              /\ cap' = "failed"
              /\ pc' = "idle"
    /\ cam' = Mark(cam)
    /\ text' = <<>>
    /\ NoRunLocals
    /\ UNCHANGED firmware

\* one pass of the sweep: set_focus(focus), the settle wait, cap.read() and,
\* when a frame was captured, the comparison with the best value so far
AfStep ==
    /\ pc = "af_sweep" /\ in_range(af)
    /\ \E rx \in Rx(2) : cam' = set_focus(cam, af.focus, rx)
    /\ \E ok \in BOOLEAN, value \in Sharpness :
         /\ af' = sample(af, ok, value)
         /\ ret' = IF ok THEN "True" ELSE "False"
    /\ pc' = After(cam', "af_sweep")
    /\ UNCHANGED <<text, cap, frame_width, frame_height, center_x, center_y, boxes,
                   key, firmware>>

\* after the sweep: set_focus(best_focus) and cap.release()
AfCommit ==
    /\ pc = "af_sweep" /\ ~in_range(af)
    /\ \E rx \in Rx(2) : cam' = set_focus(cam, af.best_focus, rx)
    /\ af' = [af EXCEPT !.committed = TRUE]
    /\ cap' = "released"
    /\ pc' = After(cam', "idle")
    /\ UNCHANGED <<text, frame_width, frame_height, center_x, center_y, boxes, key,
                   ret, firmware>>

Next ==
    \/ SendCommand
    \/ WakeUp
    \/ Autofocus
    \/ IrOn
    \/ IrOff
    \/ SetModeDay
    \/ SetModeNight
    \/ SetZoom
    \/ SetFocus
    \/ Pan
    \/ Tilt
    \/ RunStart
    \/ RunRead
    \/ RunCycle
    \/ RunWaitKey
    \/ AfStart
    \/ AfStep
    \/ AfCommit

Spec == Init /\ [][Next]_vars

\* ------------------------------------------------------- one send, step by step
\* the command texts and the responses of the firmware followed step by step
FwCmds == { <<"M", "8">>, <<" ", "v", " ">> }

FwReplies == { <<>>, <<"o", "k", CR, LF>>, <<" ", "e", "0xC3", "0xA9", CR, LF>> }

\* send_command is called: a Closed channel returns None at once, on an Open one
\* the call goes on to its write
FwSendCommand ==
    /\ pc = "idle" /\ firmware.sends < MaxSends
    /\ \E cmd \in FwCmds :
         /\ text' = cmd
         /\ IF closed(cam)
            THEN /\ cam' = send_command(Mark(cam), cmd, <<>>)
                 /\ pc' = "idle"
            ELSE /\ cam' = [Mark(cam) EXCEPT !.sent = Append(@, cmd)]
                 /\ pc' = "fw_write"
    /\ firmware' = [firmware EXCEPT !.io = <<>>, !.read = <<>>, !.sends = @ + 1]
    /\ NoLoopLocals

\* self.serial.write(full_cmd): the line reaches the firmware, whose response
\* sets out behind whatever is still on its way
FwWrite ==
    /\ pc = "fw_write"
    /\ cam' = [cam EXCEPT !.wire = Append(@, full_cmd(text)),
                          !.bytes_out = @ + Len(full_cmd(text))]
    /\ \E r \in FwReplies :
         firmware' = [firmware EXCEPT !.flight = @ \o r, !.reply = r,
                                      !.io = Append(@, "write")]
    /\ pc' = "fw_settle"
    /\ UNCHANGED <<text, LoopVars>>

\* a plausible bug: no settle wait, the buffer is read right after the write
FwSettle_Skip ==
    /\ pc = "fw_settle"
    /\ pc' = "fw_read"
    /\ UNCHANGED <<cam, text, LoopVars, firmware>>

\* time.sleep(0.05): the bytes that arrive during the wait are in the input
\* buffer after it; a response is timely when none of it is left on its way
FwSettle ==
    /\ pc = "fw_settle"
    /\ \E n \in 0..Len(firmware.flight) :
         firmware' = [firmware EXCEPT
                          !.rxbuf = @ \o SubSeq(firmware.flight, 1, n),
                          !.flight = SubSeq(@, n + 1, Len(@)),
                          !.timely = @ /\ n = Len(firmware.flight),
                          !.io = Append(@, "sleep")]
    /\ pc' = "fw_read"
    /\ UNCHANGED <<cam, text, LoopVars>>

\* self.serial.read_all().decode("utf-8", errors="ignore"), and the return of
\* response.strip(): the input buffer is emptied
FwRead ==
    /\ pc = "fw_read"
    /\ cam' = [cam EXCEPT !.ret = Str(strip(decode(firmware.rxbuf)))]
    /\ firmware' = [firmware EXCEPT !.rxbuf = <<>>, !.read = firmware.rxbuf,
                                    !.io = Append(@, "read")]
    /\ pc' = "idle"
    /\ UNCHANGED <<text, LoopVars>>

\* between two calls the bytes still on their way reach the input buffer
FwArrive ==
    /\ pc = "idle" /\ firmware.flight # <<>>
    /\ firmware' = [firmware EXCEPT !.rxbuf = @ \o firmware.flight, !.flight = <<>>]
    /\ UNCHANGED <<cam, pc, text, LoopVars>>

FwNext == FwSendCommand \/ FwWrite \/ FwSettle \/ FwRead \/ FwArrive

\* the sends of one thread on one channel, written out in the steps of
\* send_command, with the firmware and the input buffer in view
SpecFw == Init /\ [][FwNext]_vars

\* the calls of a cycle are blocking calls that return: the thread does not
\* stay in the body of a cycle
CycleReturns == pc = "run_cycle" /\ pc' = "run_wait"

\* the steps of run, the one call the program's entry point leaves running
RunNext == RunStart \/ RunRead \/ RunCycle \/ RunWaitKey

\* the loop is one thread, so a step of it that can be taken is taken; the frame
\* source is one that eventually fails to deliver a frame: a loop that keeps
\* reading comes to a read that fails
LiveSpec ==
    /\ Init
    /\ [][RunNext]_vars
    /\ WF_pc(CycleReturns)
    /\ WF_vars(RunWaitKey)
    /\ SF_vars(RunReadFail)

\* =================================================================== claims
\* Definitions used by the properties only.
ChannelOpen == cam.serial = "Serial" /\ cam.is_open
ChannelClosed == ~ChannelOpen

\* the bytes of an ASCII line followed by CR LF
Line(t) == t \o <<"\r", "\n">>

SpaceBytes == {" ", "\t", "\n", "\r", "\f"}

HasPerson == \E i \in 1..Len(boxes) : boxes[i].cls = 0

\* the selected detection: the one of class 0 with the least index
Selected ==
    boxes[CHOOSE i \in 1..Len(boxes) :
              boxes[i].cls = 0 /\ \A j \in 1..Len(boxes) : boxes[j].cls = 0 => i <= j]

\* a cycle with a selected person has run and its commands are in the logs
CycleDone == pc = "run_wait" /\ HasPerson

\* the errors of the selected detection, in pixels
Dx == TruncDiv(Selected.x1 + Selected.x2, 2 * SubPixel) - (frame_width \div 2)
Dy == TruncDiv(Selected.y1 + Selected.y2, 2 * SubPixel) - (frame_height \div 2)

Issued(op, v) == \E i \in 1..Len(cam.issued) : cam.issued[i] = [op |-> op, v |-> v]
NoneIssued(op) == \A i \in 1..Len(cam.issued) : cam.issued[i].op # op

\* Python's round(d * 0.1): to the nearest integer, a tie to the even one
RoundTenth(d) ==
    LET a == IF d < 0 THEN -d ELSE d
        q == a \div 10
        r == a % 10
        m == IF r < 5 THEN q
             ELSE IF r > 5 THEN q + 1
             ELSE IF q % 2 = 0 THEN q ELSE q + 1
    IN IF d < 0 THEN -m ELSE m

\* the number a text of decimal digits denotes
RECURSIVE NatOf(_)
NatOf(t) ==
    IF t = <<>> THEN 0
    ELSE NatOf(SubSeq(t, 1, Len(t) - 1)) * 10
         + (CHOOSE d \in 0..9 : DigitChars[d + 1] = t[Len(t)])

IsNatText(t, n) ==
    /\ t # <<>>
    /\ \A i \in 1..Len(t) : \E d \in 1..10 : DigitChars[d] = t[i]
    /\ Len(t) > 1 => t[1] # "0"
    /\ NatOf(t) = n

\* t is the decimal text of the integer v
IsDecimalOf(t, v) ==
    IF v < 0 THEN t # <<>> /\ t[1] = "-" /\ IsNatText(Tail(t), -v)
    ELSE IsNatText(t, v)

AxisOf(op) ==
    CASE op = "set_zoom" -> "A"
      [] op = "set_focus" -> "B"
      [] op = "pan" -> "X"
      [] op = "tilt" -> "Y"

AxisOps == {"set_zoom", "set_focus", "pan", "tilt"}

\* what reaches the device is what was handed to send_command, line by line,
\* on an Open channel, and nothing on a Closed one
WireIs(lines) ==
    IF ChannelOpen
    THEN cam.wire = [k \in 1..Len(lines) |-> Line(lines[k])]
    ELSE cam.wire = <<>>

\* C1: send_command on a Closed channel (the serial handle absent or not open)
\* returns None and writes no byte to the device, whatever the command text.
C1_ClosedSendIsNoOp ==
    (ChannelClosed /\ cam.sent # <<>>) =>
        /\ cam.ret = None
        /\ cam.wire = <<>>
        /\ cam.bytes_out = 0
        /\ ~cam.raised

C1_Witness ==
    /\ ChannelClosed
    /\ pc = "idle"
    /\ text # <<>>
    /\ cam.sent = <<text>>
    /\ cam.issued = <<>>

\* C2: when the serial port could not be opened at construction, the constructor
\* has not raised and the channel is Closed, and after any sequence of later
\* operations the channel is still Closed, nothing has raised and not one byte
\* has been written to the device.
C2_FailedOpenStaysClosed ==
    cam.failed =>
        /\ ChannelClosed
        /\ ~cam.raised
        /\ pc # "crashed"
        /\ cam.bytes_out = 0
        /\ cam.wire = <<>>

C2_Witness ==
    /\ cam.failed
    /\ pc = "idle"
    /\ af.committed
    /\ Len(cam.issued) >= 3

\* C3: on an Open channel every send_command makes one write, and the bytes
\* written end in exactly one CR LF: they are the caller's text without the
\* whitespace around it, then CR LF, so what precedes the terminator never ends
\* in whitespace, whether or not the caller's text did.
C3_OneTerminator ==
    ChannelOpen =>
        /\ Len(cam.wire) = Len(cam.sent)
        /\ \A k \in 1..Len(cam.wire) :
             LET w == cam.wire[k]
                 n == Len(w) - 2
                 t == encode(cam.sent[k])
             IN /\ n >= 0
                /\ w[n + 1] = "\r" /\ w[n + 2] = "\n"
                /\ n > 0 => w[n] \notin SpaceBytes
                /\ \E a \in 0..Len(t) :
                     /\ \A i \in 1..a : t[i] \in SpaceBytes
                     /\ \A i \in (a + n + 1)..Len(t) : t[i] \in SpaceBytes
                     /\ a + n <= Len(t)
                     /\ \A i \in 1..n : w[i] = t[a + i]

C3_Witness ==
    /\ ChannelOpen
    /\ pc = "idle"
    /\ Len(text) = 3
    /\ text[1] = "M" /\ text[2] = "\r" /\ text[3] = "\n"
    /\ cam.sent = <<text>>
    /\ Len(cam.wire) = 1

\* C4: each of set_zoom(v), set_focus(v), pan(v), tilt(v) hands exactly two
\* lines to the channel, in this order: "G0 <axis><v>", v in decimal, then
\* "M0 <axis>", with axis A, B, X, Y; a sequence of such calls sends the pairs
\* one after the other, no line twice and none of another axis in between. An
\* Open channel writes exactly these lines, a Closed one nothing.
C4_AxisCommandLines ==
    (/\ cam.issued # <<>>
     /\ \A i \in 1..Len(cam.issued) : cam.issued[i].op \in AxisOps) =>
        /\ Len(cam.sent) = 2 * Len(cam.issued)
        /\ \A i \in 1..Len(cam.issued) :
             LET c == cam.issued[i]
                 g == cam.sent[2 * i - 1]
             IN /\ Len(g) > 4
                /\ SubSeq(g, 1, 4) = <<"G", "0", " ", AxisOf(c.op)>>
                /\ IsDecimalOf(SubSeq(g, 5, Len(g)), c.v)
                /\ cam.sent[2 * i] = <<"M", "0", " ", AxisOf(c.op)>>
        /\ WireIs(cam.sent)

C4_Witness ==
    /\ ChannelOpen
    /\ pc = "idle"
    /\ cam.issued = <<[op |-> "pan", v |-> -25]>>
    /\ cam.wire = << <<"G", "0", " ", "X", "-", "2", "5", "\r", "\n">>,
                     <<"M", "0", " ", "X", "\r", "\n">> >>

\* the command bundles of the protocol table
BundleOf(op) ==
    CASE op = "wake_up" ->
           << <<"M", "2", "3", "8">>, <<"M", "8">>,
              <<"v", "e", "r", "s", "i", "o", "n">>,
              <<"M", "2", "4", "2", " ", "A", "0">> >>
      [] op = "set_mode_day" ->
           << <<"M", "2", "4", "1", " ", "A", "0">>,
              <<"M", "2", "4", "0", " ", "A", "5", "0">>,
              <<"M", "2", "5", "0", " ", "A", "1", "0">>,
              <<"M", "2", "4", "2", " ", "A", "0">> >>
      [] op = "set_mode_night" ->
           << <<"M", "2", "4", "1", " ", "A", "0">>,
              <<"M", "2", "4", "0", " ", "A", "5">>,
              <<"M", "2", "5", "0", " ", "A", "4", "0">>,
              <<"M", "2", "4", "2", " ", "A", "1">> >>
      [] op = "ir_on" -> << <<"M", "2", "4", "2", " ", "A", "1">> >>
      [] op = "ir_off" -> << <<"M", "2", "4", "2", " ", "A", "0">> >>
      [] op = "autofocus" ->
           << <<"G", "9", "1">>, <<"M", "2", "4", "6">>,
              <<"M", "2", "4", "0", " ", "A", "5", "0">>,
              <<"G", "0", " ", "A", "3", "0", "0", "0", "0">>,
              <<"M", "0", " ", "A">> >>

BundleOps ==
    {"wake_up", "set_mode_day", "set_mode_night", "ir_on", "ir_off", "autofocus"}

\* C5: wake_up, set_mode_day, set_mode_night, ir_on, ir_off and autofocus hand
\* exactly the fixed bundle of the protocol table to the channel, in order; an
\* Open channel writes exactly these lines, a Closed one nothing.
C5_FixedBundles ==
    (cam.issued # <<>> /\ cam.issued[1].op \in BundleOps) =>
        /\ cam.sent = BundleOf(cam.issued[1].op)
        /\ WireIs(BundleOf(cam.issued[1].op))

C5_Witness ==
    /\ ChannelOpen
    /\ pc = "idle"
    /\ cam.issued # <<>>
    /\ cam.issued[1].op = "set_mode_day"
    /\ Len(cam.wire) = 4

\* C6 as stated: with the errors dx, dy of the selected detection, no pan is
\* issued when |round(dx * 0.1)| <= 1 and pan(round(dx * 0.1)) is issued when it
\* is > 1; the same for tilt with dy.
C6_AsStated ==
    CycleDone =>
        /\ IF Abs(RoundTenth(Dx)) > 1
           THEN Issued("pan", RoundTenth(Dx)) ELSE NoneIssued("pan")
        /\ IF Abs(RoundTenth(Dy)) > 1
           THEN Issued("tilt", RoundTenth(Dy)) ELSE NoneIssued("tilt")

\* C6 amended: the product dx * 0.1 is truncated toward zero, not rounded. No
\* pan is issued when |trunc(dx * 0.1)| <= 1, and exactly one pan, with the
\* value trunc(dx * 0.1), is issued when it is > 1; the same for tilt with dy.
C6_TruncatedGain ==
    CycleDone =>
        /\ IF Abs(TruncDiv(Dx, 10)) > 1
           THEN /\ Issued("pan", TruncDiv(Dx, 10))
                /\ Cardinality({i \in 1..Len(cam.issued) : cam.issued[i].op = "pan"}) = 1
           ELSE NoneIssued("pan")
        /\ IF Abs(TruncDiv(Dy, 10)) > 1
           THEN /\ Issued("tilt", TruncDiv(Dy, 10))
                /\ Cardinality({i \in 1..Len(cam.issued) : cam.issued[i].op = "tilt"}) = 1
           ELSE NoneIssued("tilt")

\* a cycle whose horizontal error rounds to 2 and truncates to 1, and whose
\* vertical error is negative and outside the deadband
C6_Witness ==
    /\ CycleDone
    /\ \/ /\ Dx = 16 /\ NoneIssued("pan")
          /\ Dy = 16 /\ NoneIssued("tilt")
       \/ /\ Dx < -19 /\ Issued("pan", TruncDiv(Dx, 10))

\* C7: whatever the frame geometry, a selected detection whose box center is
\* exactly the frame center (width / 2, height / 2) gets no pan and no tilt.
C7_CenteredNoPanTilt ==
    (/\ CycleDone
     /\ Selected.x1 + Selected.x2 = frame_width * SubPixel
     /\ Selected.y1 + Selected.y2 = frame_height * SubPixel) =>
        NoneIssued("pan") /\ NoneIssued("tilt")

C7_Witness ==
    /\ CycleDone
    /\ frame_width = 641 /\ frame_height = 481
    /\ Selected.x1 + Selected.x2 = frame_width * SubPixel
    /\ Selected.y1 + Selected.y2 = frame_height * SubPixel
    /\ Selected.x1 > 0
    /\ Len(cam.issued) = 1

\* C8: the cycle sends one zoom value; for a box of a whole number of pixels it
\* is 10000 + (frame_width - bbox_width) * 5, and no box at least as wide, in
\* the same frame, gets a larger zoom value.
C8_ZoomMonotone ==
    CycleDone =>
        LET w == Selected.x2 - Selected.x1
            z == cam.issued[Len(cam.issued)]
        IN /\ z.op = "set_zoom"
           /\ Cardinality({i \in 1..Len(cam.issued) : cam.issued[i].op = "set_zoom"}) = 1
           /\ z.v * SubPixel <= 10000 * SubPixel + (frame_width * SubPixel - w) * 5
           /\ z.v * SubPixel > 10000 * SubPixel + (frame_width * SubPixel - w) * 5 - SubPixel
           /\ w % SubPixel = 0 =>
                z.v = 10000 + (frame_width - w \div SubPixel) * 5
           /\ \A d \in Dets(frame_width) :
                d.x2 - d.x1 >= w => zoom_value(frame_width, d.x1, d.x2) <= z.v

C8_Witness ==
    /\ CycleDone
    /\ (Selected.x2 - Selected.x1) % SubPixel # 0
    /\ \E d \in Dets(frame_width) :
         /\ d.x2 - d.x1 > Selected.x2 - Selected.x1
         /\ zoom_value(frame_width, d.x1, d.x2) < cam.issued[Len(cam.issued)].v

\* C9: in a cycle whose detection list holds no detection of class 0 (the empty
\* list too) no command is issued: from the frame's read to the next frame's
\* read nothing is handed to the channel and nothing is written.
C9_NoPersonNoCommand ==
    (pc \in {"run_cycle", "run_wait", "run_read"} /\ ~HasPerson) =>
        /\ cam.issued = <<>>
        /\ cam.sent = <<>>
        /\ cam.wire = <<>>

C9_Witness ==
    /\ pc = "run_wait"
    /\ ChannelOpen
    /\ Len(boxes) = 2
    /\ ~HasPerson

\* C10: frame 1280 x 720 and the selected box (590,330)-(690,430): the cycle
\* issues tilt(2) and set_zoom(15900) and no pan, and the lines of the cycle are
\* exactly G0 Y2, M0 Y, G0 A15900, M0 A.
C10_EndToEnd ==
    (/\ CycleDone
     /\ frame_width = 1280 /\ frame_height = 720
     /\ Selected.x1 = 590 * SubPixel /\ Selected.y1 = 330 * SubPixel
     /\ Selected.x2 = 690 * SubPixel /\ Selected.y2 = 430 * SubPixel) =>
        /\ cam.issued = <<[op |-> "tilt", v |-> 2], [op |-> "set_zoom", v |-> 15900]>>
        /\ cam.sent = << <<"G", "0", " ", "Y", "2">>, <<"M", "0", " ", "Y">>,
                         <<"G", "0", " ", "A", "1", "5", "9", "0", "0">>,
                         <<"M", "0", " ", "A">> >>
        /\ WireIs(cam.sent)

C10_Witness ==
    /\ CycleDone
    /\ ChannelOpen
    /\ frame_width = 1280 /\ frame_height = 720
    /\ Selected.x1 = 590 * SubPixel /\ Selected.y1 = 330 * SubPixel
    /\ Selected.x2 = 690 * SubPixel /\ Selected.y2 = 430 * SubPixel
    /\ Len(cam.wire) = 4

\* ------------------------------------------------------- the autofocus sweep
\* the sweep runs upwards, as a sweep from min_focus to max_focus does
Ascending == af.step > 0

\* the candidates min_focus + k * step that lie within [min_focus, max_focus]
GridIdx ==
    {k \in 0..(af.max_focus - af.min_focus) : af.min_focus + k * af.step <= af.max_focus}

Grid == [i \in 1..Cardinality(GridIdx) |-> af.min_focus + (i - 1) * af.step]

SetFocusOf(v) == [op |-> "set_focus", v |-> v]

\* autofocus_loop has returned after its sweep, its calls are in the log
SweepDone == af.committed

\* the last call autofocus_loop made
Commit == cam.issued[Len(cam.issued)]

\* the passes of the sweep whose frame was captured
CapturedIdx == {i \in 1..Len(af.samples) : af.samples[i].ret}

\* the captured passes whose sharpness is the greatest of the captured ones
Sharpest ==
    {i \in CapturedIdx : \A j \in CapturedIdx : af.samples[j].value <= af.samples[i].value}

\* every candidate of the grid was sampled and its frame captured
AllCaptured ==
    /\ Len(af.samples) = Len(Grid)
    /\ \A i \in 1..Len(af.samples) : af.samples[i].ret /\ af.samples[i].value >= 0

\* C11: with min_focus <= max_focus, a positive step, every frame captured and a
\* sharpness whose maximum over the grid is attained at one candidate only, the
\* last set_focus of autofocus_loop carries exactly that candidate.
C11_UniqueMaxCommitted ==
    (/\ SweepDone /\ Ascending /\ af.min_focus <= af.max_focus
     /\ AllCaptured /\ Cardinality(Sharpest) = 1) =>
        \A i \in Sharpest : Commit = SetFocusOf(Grid[i])

\* a sweep of three captured candidates whose sharpest one is the second
C11_Witness ==
    /\ SweepDone /\ Ascending /\ AllCaptured
    /\ Len(Grid) = 3
    /\ Sharpest = {2}
    /\ Commit = SetFocusOf(Grid[2])

\* C12: when several samples share the greatest sharpness, the best focus is the
\* one sampled first among them (the lowest, the sweep running upwards), during
\* the sweep and at the commit: a later equal sample never replaces it.
C12_TieKeepsEarlier ==
    ((pc = "af_sweep" \/ SweepDone) /\ Cardinality(Sharpest) >= 2) =>
        \E i \in Sharpest :
            /\ \A j \in Sharpest : i <= j
            /\ Ascending => \A j \in Sharpest : af.samples[i].focus <= af.samples[j].focus
            /\ af.best_focus = af.samples[i].focus
            /\ SweepDone => Commit = SetFocusOf(af.samples[i].focus)

\* a finished upward sweep whose first and last samples tie at the maximum
C12_Witness ==
    /\ SweepDone /\ Ascending
    /\ Len(af.samples) = 3
    /\ Sharpest = {1, 3}
    /\ Commit = SetFocusOf(af.min_focus)

\* C13: when no frame of the sweep was captured (every capture failed, or the
\* grid is empty), the best stays min_focus with the score -1 and autofocus_loop
\* ends with set_focus(min_focus).
C13_NothingCapturedCommitsMin ==
    (SweepDone /\ CapturedIdx = {}) =>
        /\ af.best_focus = af.min_focus
        /\ af.best_value = -1
        /\ cam.issued # <<>>
        /\ Commit = SetFocusOf(af.min_focus)

\* a sweep from a non-zero min_focus whose only capture failed
C13_Witness ==
    /\ SweepDone /\ CapturedIdx = {}
    /\ af.samples # <<>>
    /\ af.min_focus > 0
    /\ Commit = SetFocusOf(af.min_focus)

\* the set_focus calls of the first n candidates of the grid, in ascending order
Candidates(n) == [i \in 1..n |-> SetFocusOf(Grid[i])]

\* C18: an upward sweep commands exactly the candidates min_focus,
\* min_focus + step, ... that do not exceed max_focus (max_focus included when it
\* is one of them), each once and in ascending order, whether or not their frames
\* were captured; one commit follows, so the calls number the candidates plus one.
C18_SweepCommandsGrid ==
    /\ (pc = "af_sweep" /\ Ascending) =>
           /\ Len(af.samples) <= Len(Grid)
           /\ cam.issued = Candidates(Len(af.samples))
    /\ (SweepDone /\ Ascending) =>
           /\ Len(af.samples) = Len(Grid)
           /\ Len(cam.issued) = Len(Grid) + 1
           /\ SubSeq(cam.issued, 1, Len(Grid)) = Candidates(Len(Grid))
           /\ Commit.op = "set_focus"

\* a finished sweep of three candidates, the last one max_focus itself, whose
\* first capture failed and whose later candidates were commanded all the same
C18_Witness ==
    /\ SweepDone /\ Ascending
    /\ Len(Grid) = 3
    /\ Grid[3] = af.max_focus
    /\ ~af.samples[1].ret
    /\ Len(cam.issued) = 4
    /\ cam.issued[3] = SetFocusOf(af.max_focus)

\* the candidates whose capture failed
FailedIdx == {i \in 1..Len(af.samples) : ~af.samples[i].ret}

\* C20: with at least one captured frame, the committed focus is the lowest
\* candidate (of an upward sweep; the first sampled in any sweep) whose captured
\* sharpness is the greatest of the captured ones; a candidate whose capture
\* failed is committed only when every capture failed and it is min_focus.
C20_CommitAmongCaptured ==
    SweepDone =>
        /\ CapturedIdx # {} =>
               \E i \in Sharpest :
                   /\ Commit = SetFocusOf(af.samples[i].focus)
                   /\ \A j \in Sharpest : i <= j
                   /\ Ascending =>
                          \A j \in Sharpest : af.samples[i].focus <= af.samples[j].focus
        /\ \A i \in FailedIdx :
               Commit = SetFocusOf(af.samples[i].focus) =>
                   CapturedIdx = {} /\ af.samples[i].focus = af.min_focus

\* a finished upward sweep whose first capture failed and whose two later
\* captures are equally sharp: the second candidate is committed
C20_Witness ==
    /\ SweepDone /\ Ascending
    /\ FailedIdx = {1}
    /\ Sharpest = {2, 3}
    /\ Commit = SetFocusOf(af.samples[2].focus)

\* ------------------------------------------------------- the frame source
\* the loop that was called last could not open its frame source
OpenFailed == cap = "failed"

\* C15: when the frame source cannot be opened the loop returns at once: run has
\* issued no command and read no frame, autofocus_loop has issued no set_focus,
\* neither for a candidate nor as a commit, and nothing reached the channel.
C15_OpenFailureReturns ==
    OpenFailed =>
        /\ pc = "idle"
        /\ cam.issued = <<>> /\ cam.sent = <<>> /\ cam.wire = <<>>
        /\ NoneIssued("set_focus")
        /\ ret = "unset" /\ boxes = <<>>
        /\ af.samples = <<>> /\ ~af.committed

\* a loop that failed to open its frame source on a working Open channel
C15_Witness ==
    /\ OpenFailed
    /\ ChannelOpen
    /\ cam.bytes_out > 0
    /\ cam.issued = <<>>

\* ------------------------------------------------------- the control loop
\* the commands of a cycle, computed from one detection's box and the frame:
\* pan and tilt when their truncated tenth is outside the deadband, then zoom
CommandsFor(d) ==
    LET p == TruncDiv(TruncDiv(d.x1 + d.x2, 2 * SubPixel) - (frame_width \div 2), 10)
        t == TruncDiv(TruncDiv(d.y1 + d.y2, 2 * SubPixel) - (frame_height \div 2), 10)
        z == TruncDiv(10000 * SubPixel + (frame_width * SubPixel - (d.x2 - d.x1)) * 5,
                      SubPixel)
    IN (IF Abs(p) > 1 THEN <<[op |-> "pan", v |-> p]>> ELSE <<>>)
       \o (IF Abs(t) > 1 THEN <<[op |-> "tilt", v |-> t]>> ELSE <<>>)
       \o <<[op |-> "set_zoom", v |-> z]>>

\* the box of a detection, without its class and its confidence
BoxOf(d) == <<d.x1, d.y1, d.x2, d.y2>>

\* C16: the commands of a cycle are those computed from the box of the first
\* detection of class 0 in the detector's order; the detections before it (of
\* other classes), those after it (of any class) and every confidence value
\* have no part in them.
C16_FirstPersonDecides ==
    CycleDone =>
        \E i \in 1..Len(boxes) :
            /\ boxes[i].cls = 0
            /\ \A j \in 1..(i - 1) : boxes[j].cls # 0
            /\ cam.issued = CommandsFor(boxes[i])

\* two person detections of different boxes, the second the more confident one
\* and leading to other commands: the cycle issued the commands of the first
C16_Witness ==
    /\ CycleDone
    /\ Len(boxes) >= 2
    /\ boxes[1].cls = 0 /\ boxes[2].cls = 0
    /\ boxes[2].conf > boxes[1].conf
    /\ CommandsFor(boxes[2]) # CommandsFor(boxes[1])
    /\ cam.issued = CommandsFor(boxes[1])

\* a cycle with a selected person is over: its commands are in the logs, the
\* thread is at the cancel test or before the next frame read
CycleOver == pc \in {"run_wait", "run_read"} /\ HasPerson

\* the operations of the calls logged, in order
OpsIssued == [i \in 1..Len(cam.issued) |-> cam.issued[i].op]

\* the axis letters of the lines handed to the channel, in order
AxesSent == [i \in 1..Len(cam.sent) |-> cam.sent[i][4]]

\* the cycle's calls are pan (if any), tilt (if any), then the one set_zoom, and
\* their lines went to the channel in that order, all written or all dropped
C17_CycleOrder ==
    CycleOver =>
        /\ OpsIssued \in { <<"set_zoom">>, <<"pan", "set_zoom">>, <<"tilt", "set_zoom">>,
                           <<"pan", "tilt", "set_zoom">> }
        /\ Cardinality({i \in 1..Len(cam.issued) : cam.issued[i].op = "set_zoom"}) = 1
        /\ Len(cam.sent) = 2 * Len(cam.issued)
        /\ \A i \in 1..Len(cam.issued) :
             /\ AxesSent[2 * i - 1] = AxisOf(cam.issued[i].op)
             /\ AxesSent[2 * i] = AxisOf(cam.issued[i].op)
        /\ WireIs(cam.sent)

\* once the cycle's commands are done nothing more goes to the channel before
\* the next frame is read, and the frame read itself writes nothing: the lines
\* of the next cycle start from an empty log
C17_CyclesDoNotOverlap ==
    /\ pc = "run_wait" => cam' = cam
    /\ pc = "run_read" =>
           \/ cam' = cam
           \/ /\ pc' = "run_cycle"
              /\ cam'.issued = <<>> /\ cam'.sent = <<>> /\ cam'.wire = <<>>
              /\ cam'.bytes_out = cam.bytes_out

\* C17: a cycle that finds a person issues exactly one set_zoom whatever the
\* deadbands decide, its commands reach the channel in the order pan, tilt,
\* zoom, and all lines of a cycle are written (or dropped by a Closed channel)
\* before the next frame read and any line of the next cycle.
C17_OneZoomInOrder == [] C17_CycleOrder /\ [][C17_CyclesDoNotOverlap]_vars

\* a cycle of three commands on an Open channel is complete, its six lines
\* written, and the thread is about to read the next frame
C17_Witness ==
    /\ pc = "run_read" /\ key = -1
    /\ HasPerson
    /\ ChannelOpen
    /\ OpsIssued = <<"pan", "tilt", "set_zoom">>
    /\ Len(cam.wire) = 6

\* the thread is inside the loop of run
InLoop == pc \in {"run_read", "run_cycle", "run_wait"}

\* run has returned: the loop is left and the capture released
RunEnded == pc = "idle" /\ cap = "released" /\ ~af.committed

\* run has returned because a frame read failed
EndedByFailedRead == RunEnded /\ ret = "False"

\* C14 as stated: once a failed frame read has ended the session the loop has
\* terminated and the channel resources are released, the command channel is
\* no longer Open.
C14_AsStated == EndedByFailedRead => ChannelClosed

\* the step that ends the loop, a failed frame read or the cancel key, issues
\* nothing, leaves the loop and releases the frame source; the command channel
\* is left as it is
C14_EndingStep ==
    /\ (pc = "run_read" /\ ret' = "False") =>
           pc' = "idle" /\ cap' = "released" /\ cam' = cam
    /\ (pc = "run_wait" /\ key' = 27) =>
           pc' = "idle" /\ cap' = "released" /\ cam' = cam
    /\ (InLoop /\ pc' = "idle") =>
           (pc = "run_read" /\ ret' = "False") \/ (pc = "run_wait" /\ key' = 27)
    /\ ChannelOpen => ChannelOpen'

\* C14 amended: the loop ends on the cancel key or on the first failed frame
\* read; that step issues no command, ends the loop and releases the frame
\* source, while the command channel is not released (an Open channel stays
\* Open); under a frame source that eventually fails, the loop eventually ends.
C14_LoopEndsSourceReleased ==
    /\ [][C14_EndingStep]_vars
    /\ [](RunEnded => ~InLoop /\ cap = "released")
    /\ InLoop ~> RunEnded

\* a session on an Open channel that commanded the camera and was then ended by
\* a failed frame read: the capture is released, the channel still Open
C14_Witness ==
    /\ EndedByFailedRead
    /\ ChannelOpen
    /\ cam.issued # <<>>
    /\ cam.wire # <<>>

\* ------------------------------------------------------- write, settle, read
\* the text of a response of the firmware, trimmed
TrimmedText(r) ==
    CASE r = <<>> -> <<>>
      [] r = <<"o", "k", "\r", "\n">> -> <<"o", "k">>
      [] r = <<" ", "e", "0xC3", "0xA9", "\r", "\n">> -> <<"e", "U+00E9">>

\* a send_command on an Open channel has returned
SendReturned == pc = "idle" /\ ChannelOpen /\ cam.sent # <<>>

\* the three steps of a send, taken together, are send_command applied to the
\* bytes found in the input buffer
FwIsSendCommand ==
    SendReturned =>
        cam = send_command([cam EXCEPT !.wire = <<>>, !.sent = <<>>, !.ret = Unset,
                                       !.bytes_out = @ - Len(full_cmd(text))],
                           text, firmware.read)

\* C19: on an Open channel a send_command does one write, then the settle wait,
\* then one read of everything in the input buffer, in this order; when every
\* response so far arrived whole within its settle interval, the value returned
\* for a command is the trimmed text of the response to that command, with no
\* byte of an earlier response, and no byte is left behind.
C19_WriteSettleDrain ==
    /\ ChannelOpen =>
           \E n \in 0..3 : firmware.io = SubSeq(<<"write", "sleep", "read">>, 1, n)
    /\ SendReturned =>
           /\ firmware.io = <<"write", "sleep", "read">>
           /\ Len(cam.wire) = 1
    /\ (SendReturned /\ firmware.timely) =>
           /\ cam.ret = Str(TrimmedText(firmware.reply))
           /\ firmware.rxbuf = <<>> /\ firmware.flight = <<>>

\* the second of two sends whose responses both arrived in time, the first one
\* "ok": the value returned is the text of the second response alone
C19_Witness ==
    /\ SendReturned
    /\ firmware.timely
    /\ firmware.sends = 2
    /\ cam.bytes_out > Len(full_cmd(text))
    /\ firmware.reply = <<" ", "e", "0xC3", "0xA9", "\r", "\n">>
    /\ cam.ret = Str(<<"e", "U+00E9">>)

====
